---- MODULE Spec2Model ----
(***************************************************************************)
(* Lambda.rs: tokenizer -> scope-resolving parser -> pretty printer.       *)
(*                                                                         *)
(* A string is a sequence of characters; a character is a one-element      *)
(* name ("x", "<", ...) or a code point written "U+....".  Tokens and      *)
(* Terms are tagged tuples.                                                *)
(***************************************************************************)
EXTENDS Integers, Sequences, FiniteSets, TLC

VARIABLES
    text,      \* the &str handed to tokenize
    tpos,      \* tokenize: characters the Peekable<Chars> has yielded
    tokens,    \* tokenize: the Vec<Token> built so far
    tstate,    \* tokenize: "run" | "done" (returned) | "panic"
    cur,       \* Parser.iter: tokens the iterator has yielded
    env,       \* Parser.env: the binder stack
    freevar,   \* Parser.freevar: the free-variable table
    stack,     \* the parser's call stack (innermost frame last)
    ret,       \* the Term the last completed production returned
    pstate,    \* parse: "idle" | "run" | "ok" (returned) | "panic"
    result,    \* what parse returned: <<Term, freevar.clone()>>
    out,       \* what PrettyPrinter::format returned
    fstate,    \* format: "idle" | "done" | "panic"
    prev       \* the (Term, table) the previous run parsed

vars == <<text, tpos, tokens, tstate, cur, env, freevar, stack, ret, pstate,
          result, out, fstate, prev>>

-----------------------------------------------------------------------------
(* Bounds *)

\* longest text drawn from the whole alphabet
MaxText == 3
\* most Term nodes in a text generated from the grammar
MaxNodes == 5

-----------------------------------------------------------------------------
(* Characters *)

NUL == "U+0000"
LAMBDA_CHAR == "U+03BB"

Letters == {"x", "y"}
Digits == {"1"}
Punctuation == {"\\", ".", "{", "}", "<", "|", ">"}
\* char::is_whitespace: the Unicode White_Space property
Whitespace == {" ", "U+3000"}
\* characters no rule of the lexer accepts
Others == {"@", "U+00E9", NUL}

Alphabet == Letters \cup Digits \cup {"_"} \cup Punctuation \cup Whitespace \cup Others

is_whitespace(c) == c \in Whitespace

ident_start(c) == c \in Letters \/ c = "_"

ident_body(c) == c \in Letters \/ c \in Digits \/ c = "_"

-----------------------------------------------------------------------------
(* Tokens *)

Var(name) == <<"Var", name>>
TokLambda == <<"Lambda">>
Dot == <<"Dot">>
LBrace == <<"LBrace">>
RBrace == <<"RBrace">>
Bra == <<"Bra">>
Delim == <<"Delim">>
Ket == <<"Ket">>

IsVar(t) == t[1] = "Var"

\* the single-character tokens of consume_token
PunctToken(c) ==
    CASE c = "\\" -> TokLambda
      [] c = "."  -> Dot
      [] c = "{"  -> LBrace
      [] c = "}"  -> RBrace
      [] c = "<"  -> Bra
      [] c = "|"  -> Delim
      [] c = ">"  -> Ket

-----------------------------------------------------------------------------
(* Tokenizer *)

\* iter.next_if(pred) repeated: the position after the longest run from i
\* (characters yielded so far) of characters satisfying the predicate
RECURSIVE SkipWhile(_, _, _)
SkipWhile(s, i, body) ==
    IF i < Len(s) /\ (IF body THEN ident_body(s[i + 1]) ELSE is_whitespace(s[i + 1]))
    THEN SkipWhile(s, i + 1, body)
    ELSE i

\* consume_identifier: chr1 (at position i, already consumed) and the
\* ident_body characters after it
consume_identifier(s, i) ==
    LET e == SkipWhile(s, i, TRUE)
    IN  [tok |-> Var(SubSeq(s, i, e)), pos |-> e]

\* iter.next().unwrap_or_default(): the next character, or char::default()
\* = '\0' at the end of the input
NextOrDefault(s, i) == IF i < Len(s) THEN s[i + 1] ELSE NUL

\* one call of consume_token from position i:
\* kind "some" (a token), "none" (None returned) or "panic"
consume_token(s, i) ==
    LET w == SkipWhile(s, i, FALSE)
        c == NextOrDefault(s, w)
        n == IF w < Len(s) THEN w + 1 ELSE w
    IN  IF c \in Punctuation
        THEN [kind |-> "some", tok |-> PunctToken(c), pos |-> n]
        ELSE IF ident_start(c)
        THEN [kind |-> "some"] @@ consume_identifier(s, n)
        ELSE IF c = NUL
        THEN [kind |-> "none", tok |-> <<"None">>, pos |-> n]
        ELSE [kind |-> "panic", tok |-> <<"None">>, pos |-> n]

-----------------------------------------------------------------------------
(* Terms *)

Variable(index) == <<"Variable", index>>
Lambda(param, body) == <<"Lambda", param, body>>
Application(lhs, rhs) == <<"Application", lhs, rhs>>

\* Option::None, for a token, a Term or a result that is not there
None == <<"None">>

\* #[derive(PartialEq)] on Term: field-by-field equality of the same variant
TermEq(a, b) == a = b

-----------------------------------------------------------------------------
(* Parser: the token iterator *)

\* Peekable::peek: the next token, None at the end
peek(toks, c) == IF c < Len(toks) THEN toks[c + 1] ELSE None

\* the iterator's position after next(): a token is yielded unless at the end
next_pos(toks, c) == IF c < Len(toks) THEN c + 1 ELSE c

\* expect_token: next() and the comparison with the expected token
expect_token(toks, c, expected) ==
    [ok |-> peek(toks, c) = expected, pos |-> next_pos(toks, c)]

\* the slip of reading the identifier with peek() and not next()
expect_ident_peeking(toks, c) ==
    [ok |-> IsVar(peek(toks, c)),
     name |-> IF IsVar(peek(toks, c)) THEN peek(toks, c)[2] ELSE <<>>,
     pos |-> c]

\* expect_ident: next() and the name of a Var token
expect_ident(toks, c) ==
    [ok |-> IsVar(peek(toks, c)),
     name |-> IF IsVar(peek(toks, c)) THEN peek(toks, c)[2] ELSE <<>>,
     pos |-> next_pos(toks, c)]

-----------------------------------------------------------------------------
(* Parser: scope resolution *)

\* the slip of searching the binder stack from the bottom (Iterator::position)
position(e, ident) ==
    LET hits == {i \in 0 .. Len(e) - 1 : e[i + 1] = ident}
    IN  IF hits = {} THEN -1 ELSE CHOOSE i \in hits : \A j \in hits : i <= j

\* env.iter().rposition(|name| name == &ident): the 0-based position of the
\* last entry equal to ident, -1 for Option::None
rposition(e, ident) ==
    LET hits == {i \in 0 .. Len(e) - 1 : e[i + 1] = ident}
    IN  IF hits = {} THEN -1 ELSE CHOOSE i \in hits : \A j \in hits : i >= j

\* the slip of numbering the free-variable slots from 0
free_index_from_zero(fv) == -(Len(fv) - 1)

\* -(self.freevar.len() as i32), after the push
free_index(fv) == -Len(fv)

\* parse_var after expect_ident: the Term and the free-variable table
parse_var(e, fv, ident) ==
    LET idx == rposition(e, ident)
    IN  IF idx >= 0
        THEN [term |-> Variable(Len(e) - idx), freevar |-> fv]
        ELSE [term |-> Variable(free_index(Append(fv, ident))),
              freevar |-> Append(fv, ident)]

-----------------------------------------------------------------------------
(* Parser: the recursive descent, one frame per call *)

Frame(fn, pc, param, lhs) == [fn |-> fn, pc |-> pc, param |-> param, lhs |-> lhs]
TermFrame == Frame("parse_term", "start", <<>>, None)

Top == stack[Len(stack)]
Below == SubSeq(stack, 1, Len(stack) - 1)

\* a production returns term to its caller; parse returns when none is left
Return(term, fv) ==
    /\ stack' = Below
    /\ ret' = term
    /\ IF Below = <<>>
       THEN pstate' = "ok" /\ result' = <<term, fv>>
       ELSE pstate' = pstate /\ result' = result

\* panic!: the call stack unwinds; the Parser's fields stay as they are
Panic(c) ==
    /\ cur' = c
    /\ pstate' = "panic"
    /\ stack' = <<>>
    /\ UNCHANGED <<env, freevar, ret, result>>

Running(fn, pc) ==
    /\ pstate = "run"
    /\ stack # <<>>
    /\ Top.fn = fn
    /\ Top.pc = pc

\* Parser::new(tokens) and the call of parse
ParseCall ==
    /\ tstate = "done"
    /\ pstate = "idle"
    /\ pstate' = "run"
    /\ cur' = 0
    /\ env' = <<>>
    /\ freevar' = <<>>
    /\ stack' = <<TermFrame>>
    /\ UNCHANGED <<text, tpos, tokens, tstate, ret, result, out, fstate, prev>>

\* parse_term: dispatch on the peeked token
ParseTerm ==
    /\ Running("parse_term", "start")
    /\ LET t == peek(tokens, cur)
       IN  IF IsVar(t)
           THEN /\ stack' = Below \o <<Frame("parse_var", "start", <<>>, None)>>
                /\ UNCHANGED <<cur, pstate>>
           ELSE IF t = TokLambda
           THEN /\ stack' = Below \o <<Frame("parse_lambda", "start", <<>>, None)>>
                /\ UNCHANGED <<cur, pstate>>
           ELSE IF t = Bra
           THEN /\ stack' = Below \o <<Frame("parse_application", "start", <<>>, None)>>
                /\ UNCHANGED <<cur, pstate>>
           ELSE /\ stack' = <<>>
                /\ pstate' = "panic"
                /\ UNCHANGED cur
    /\ UNCHANGED <<text, tpos, tokens, tstate, env, freevar, ret, result, out,
                   fstate, prev>>

ParseVar ==
    /\ Running("parse_var", "start")
    /\ LET id == expect_ident(tokens, cur)
           r == parse_var(env, freevar, id.name)
       IN  IF id.ok
           THEN /\ cur' = id.pos
                /\ freevar' = r.freevar
                /\ Return(r.term, r.freevar)
                /\ UNCHANGED env
           ELSE Panic(id.pos)
    /\ UNCHANGED <<text, tpos, tokens, tstate, out, fstate, prev>>

\* parse_lambda up to the recursive call: '\' IDENT '.' '{', env.push
ParseLambdaEnter ==
    /\ Running("parse_lambda", "start")
    /\ LET c1 == next_pos(tokens, cur)
           id == expect_ident(tokens, c1)
           dot == expect_token(tokens, id.pos, Dot)
           lb == expect_token(tokens, dot.pos, LBrace)
       IN  IF ~id.ok THEN Panic(id.pos)
           ELSE IF ~dot.ok THEN Panic(dot.pos)
           ELSE IF ~lb.ok THEN Panic(lb.pos)
           ELSE /\ cur' = lb.pos
                /\ env' = Append(env, id.name)
                /\ stack' = Below \o <<Frame("parse_lambda", "body", id.name, None),
                                       TermFrame>>
                /\ UNCHANGED <<freevar, ret, pstate, result>>
    /\ UNCHANGED <<text, tpos, tokens, tstate, out, fstate, prev>>

\* parse_lambda after the body: '}', env.pop, the Lambda
ParseLambdaExit ==
    /\ Running("parse_lambda", "body")
    /\ LET rb == expect_token(tokens, cur, RBrace)
       IN  IF ~rb.ok THEN Panic(rb.pos)
           ELSE /\ cur' = rb.pos
                /\ env' = SubSeq(env, 1, Len(env) - 1)
                /\ Return(Lambda(Top.param, ret), freevar)
                /\ UNCHANGED freevar
    /\ UNCHANGED <<text, tpos, tokens, tstate, out, fstate, prev>>

\* parse_application up to the first recursive call: '<'
ParseAppEnter ==
    /\ Running("parse_application", "start")
    /\ cur' = next_pos(tokens, cur)
    /\ stack' = Below \o <<Frame("parse_application", "lhs", <<>>, None), TermFrame>>
    /\ UNCHANGED <<text, tpos, tokens, tstate, env, freevar, ret, pstate, result,
                   out, fstate, prev>>

\* parse_application after the left side: '|', the second recursive call
ParseAppDelim ==
    /\ Running("parse_application", "lhs")
    /\ LET d == expect_token(tokens, cur, Delim)
       IN  IF ~d.ok THEN Panic(d.pos)
           ELSE /\ cur' = d.pos
                /\ stack' = Below \o <<Frame("parse_application", "rhs", <<>>, ret),
                                       TermFrame>>
                /\ UNCHANGED <<env, freevar, ret, pstate, result>>
    /\ UNCHANGED <<text, tpos, tokens, tstate, out, fstate, prev>>

\* parse_application after the right side: '>', the Application
ParseAppKet ==
    /\ Running("parse_application", "rhs")
    /\ LET k == expect_token(tokens, cur, Ket)
       IN  IF ~k.ok THEN Panic(k.pos)
           ELSE /\ cur' = k.pos
                /\ Return(Application(Top.lhs, ret), freevar)
                /\ UNCHANGED <<env, freevar>>
    /\ UNCHANGED <<text, tpos, tokens, tstate, out, fstate, prev>>

-----------------------------------------------------------------------------
(* Pretty printer *)

MAXLEN == 10

\* str::len: the length in bytes of the UTF-8 encoding; every character of
\* an output is ASCII except the two-byte U+03BB
RECURSIVE ByteLen(_)
ByteLen(s) ==
    IF s = <<>> THEN 0
    ELSE (IF Head(s) = LAMBDA_CHAR THEN 2 ELSE 1) + ByteLen(Tail(s))

\* the slip of never adding the parentheses
addparen_never(s) == s

\* addparen
addparen(s) ==
    IF s # <<>> /\ s[1] = "(" /\ s[Len(s)] = ")"
    THEN s
    ELSE <<"(">> \o s \o <<")">>

\* if len > MAXLEN { addparen } else { as is }
paren_if_long(s) == IF ByteLen(s) > MAXLEN THEN addparen(s) ELSE s

\* the outcome of a print: a String, or a panic on an index out of range
Printed(s) == [ok |-> TRUE, s |-> s]
PrintPanic == [ok |-> FALSE, s |-> <<>>]

\* the slip of indexing the binder stack from the bottom
bindpos_from_bottom(e, index) == index - 1

\* self.env.len() - (index as usize), 0-based; negative stands for the
\* usize subtraction overflowing (a panic, or a wrapped index out of range)
bindpos(e, index) == Len(e) - index

\* print_var
print_var(index, e, free) ==
    IF index < 0
    THEN LET freepos == -(index + 1)
         IN  IF freepos < Len(free)
             THEN Printed(<<"$">> \o free[freepos + 1])
             ELSE PrintPanic
    ELSE LET pos == bindpos(e, index)
         IN  IF pos >= 0 /\ pos < Len(e)
             THEN Printed(e[pos + 1])
             ELSE PrintPanic

\* print_term, print_lambda and print_application; e is self.env
RECURSIVE print_term(_, _, _)
print_term(term, e, free) ==
    IF term[1] = "Variable" THEN print_var(term[2], e, free)
    ELSE IF term[1] = "Lambda"
    THEN LET body == print_term(term[3], Append(e, term[2]), free)
         IN  IF ~body.ok THEN PrintPanic
             ELSE Printed(<<LAMBDA_CHAR>> \o term[2] \o <<".", " ">>
                          \o paren_if_long(body.s))
    ELSE LET lhs == print_term(term[2], e, free)
             rhs == print_term(term[3], e, free)
         IN  IF ~lhs.ok \/ ~rhs.ok THEN PrintPanic
             ELSE Printed(paren_if_long(lhs.s) \o addparen(rhs.s))

\* PrettyPrinter::format on what parse returned
Format ==
    /\ pstate = "ok"
    /\ fstate = "idle"
    /\ LET r == print_term(result[1], <<>>, result[2])
       IN  /\ out' = r.s
           /\ fstate' = IF r.ok THEN "done" ELSE "panic"
    /\ UNCHANGED <<text, tpos, tokens, tstate, cur, env, freevar, stack, ret,
                   pstate, result, prev>>

-----------------------------------------------------------------------------
(* Tokenizer: the loop of tokenize *)

ConsumeToken ==
    /\ tstate = "run"
    /\ LET r == consume_token(text, tpos)
       IN  /\ tpos' = r.pos
           /\ tokens' = IF r.kind = "some" THEN Append(tokens, r.tok) ELSE tokens
           /\ tstate' = IF r.kind = "some" THEN "run"
                        ELSE IF r.kind = "none" THEN "done" ELSE "panic"
    /\ UNCHANGED <<text, cur, env, freevar, stack, ret, pstate, result, out,
                   fstate, prev>>

-----------------------------------------------------------------------------
(* Inputs *)

Names == {<<"x">>, <<"y">>}

\* the source terms of the grammar with exactly n nodes, as written
RECURSIVE SrcTerms(_)
SrcTerms(n) ==
    IF n <= 0 THEN {}
    ELSE IF n = 1 THEN {<<"Var", v>> : v \in Names}
    ELSE {<<"Lam", v, b>> : v \in Names, b \in SrcTerms(n - 1)}
         \cup UNION {{<<"App", l, r>> : l \in SrcTerms(k), r \in SrcTerms(n - 1 - k)} :
                       k \in 1 .. n - 2}

\* the text of a source term
RECURSIVE Render(_)
Render(t) ==
    IF t[1] = "Var" THEN t[2]
    ELSE IF t[1] = "Lam"
    THEN <<"\\">> \o t[2] \o <<".", "{">> \o Render(t[3]) \o <<"}">>
    ELSE <<"<">> \o Render(t[2]) \o <<"|">> \o Render(t[3]) \o <<">">>

Prefixes(s) == {SubSeq(s, 1, n) : n \in 0 .. Len(s)}

\* every text of at most MaxText characters
ShortTexts == UNION {[1 .. n -> Alphabet] : n \in 0 .. MaxText}

\* the terms of at most MaxNodes nodes, cut off anywhere, or with one more
\* closing delimiter
GeneratedTexts ==
    LET whole == {Render(t) : t \in UNION {SrcTerms(n) : n \in 1 .. MaxNodes}}
    IN  UNION {Prefixes(s) : s \in whole}
        \cup {s \o <<c>> : s \in whole, c \in {"}", ">"}}

Inputs == ShortTexts \cup GeneratedTexts

\* the same text with the names x and y exchanged
SwapNames(s) ==
    [i \in 1 .. Len(s) |-> IF s[i] = "x" THEN "y" ELSE IF s[i] = "y" THEN "x" ELSE s[i]]

-----------------------------------------------------------------------------
(* The pipeline *)

Start(t) ==
    /\ text = t
    /\ tpos = 0
    /\ tokens = <<>>
    /\ tstate = "run"
    /\ cur = 0
    /\ env = <<>>
    /\ freevar = <<>>
    /\ stack = <<>>
    /\ ret = None
    /\ pstate = "idle"
    /\ result = None
    /\ out = <<>>
    /\ fstate = "idle"

Init ==
    /\ \E t \in Inputs : Start(t)
    /\ prev = None

\* the caller runs the pipeline once more, on the text with x and y exchanged
Restart ==
    /\ fstate = "done"
    /\ prev = None
    /\ prev' = result
    /\ text' = SwapNames(text)
    /\ tpos' = 0
    /\ tokens' = <<>>
    /\ tstate' = "run"
    /\ cur' = 0
    /\ env' = <<>>
    /\ freevar' = <<>>
    /\ stack' = <<>>
    /\ ret' = None
    /\ pstate' = "idle"
    /\ result' = None
    /\ out' = <<>>
    /\ fstate' = "idle"

Next ==
    \/ ConsumeToken
    \/ ParseCall
    \/ ParseTerm
    \/ ParseVar
    \/ ParseLambdaEnter
    \/ ParseLambdaExit
    \/ ParseAppEnter
    \/ ParseAppDelim
    \/ ParseAppKet
    \/ Format
    \/ Restart

Spec == Init /\ [][Next]_vars

-----------------------------------------------------------------------------
(* The grammar, as a recognizer *)

\* TERM = VAR | LAMBDA | APPLICATION: the position after the one Term that
\* starts after c tokens, -1 when no Term starts there
RECURSIVE MatchTerm(_, _)
MatchTerm(toks, c) ==
    LET t == peek(toks, c)
    IN  IF IsVar(t) THEN c + 1
        ELSE IF t = TokLambda
        THEN IF IsVar(peek(toks, c + 1)) /\ peek(toks, c + 2) = Dot
                /\ peek(toks, c + 3) = LBrace
             THEN LET b == MatchTerm(toks, c + 4)
                  IN  IF b >= 0 /\ peek(toks, b) = RBrace THEN b + 1 ELSE -1
             ELSE -1
        ELSE IF t = Bra
        THEN LET l == MatchTerm(toks, c + 1)
             IN  IF l >= 0 /\ peek(toks, l) = Delim
                 THEN LET r == MatchTerm(toks, l + 1)
                      IN  IF r >= 0 /\ peek(toks, r) = Ket THEN r + 1 ELSE -1
                 ELSE -1
        ELSE -1

-----------------------------------------------------------------------------
(* Properties *)

X == <<"x">>
Y == <<"y">>

\* the Term and the table parse returned
ParsedTerm == result[1]
ParsedFree == result[2]

\* C1: within one parse the free-variable table holds each name only once
\* (every occurrence of an unbound name shares one slot); parsing <x|x>
\* returns a table of length 1 and twice the same negative index.
C1_FreeVarDedup ==
    pstate = "ok" =>
        /\ \A i, j \in 1 .. Len(ParsedFree) : ParsedFree[i] = ParsedFree[j] => i = j
        /\ text = <<"<", "x", "|", "x", ">">> =>
               /\ Len(ParsedFree) = 1
               /\ ParsedTerm[2] = ParsedTerm[3]

\* C2: parse returns a Term only when the whole token sequence is exactly
\* one Term of the grammar, and a failed parse returns nothing.
C2_WholeInputIsOneTerm ==
    /\ pstate = "ok" => MatchTerm(tokens, 0) = Len(tokens)
    /\ pstate = "panic" => result = None

\* a character that is part of an identifier beginning with a letter or '_'
InIdentifier(s, i) ==
    \E j \in 1 .. i : ident_start(s[j]) /\ \A k \in j .. i : ident_body(s[k])

\* C3: tokenize returns a token sequence only when every character of the
\* input is whitespace, punctuation or part of an identifier, and then no
\* character of the input was left unread.
C3_LexicalRejection ==
    tstate = "done" =>
        /\ \A i \in 1 .. Len(text) :
               is_whitespace(text[i]) \/ text[i] \in Punctuation \/ InIdentifier(text, i)
        /\ tpos = Len(text)

\* C4: two closed source terms that differ only in the spelling of their
\* bound variables parse to Terms that are equal under Term's PartialEq.
C4_AlphaEquivalentEqual ==
    (prev # None /\ pstate = "ok" /\ ParsedFree = <<>> /\ prev[2] = <<>>)
        => TermEq(prev[1], ParsedTerm)

Scenario ==
    <<"\\", "x", ".", "{", "\\", "y", ".", "{", "<", "x", "|", "y", ">", "}", "}">>
ScenarioTerm == Lambda(X, Lambda(Y, Application(Variable(2), Variable(1))))

\* C5 as stated: \x.{\y.{<x|y>}} parses to Lambda(x, Lambda(y, App(2, 1)))
\* with an empty table and prints as "λx. λy. xy".
C5_ScenarioAsStated ==
    (text = Scenario /\ pstate = "ok" /\ fstate # "idle") =>
        /\ result = <<ScenarioTerm, <<>>>>
        /\ fstate = "done"
        /\ out = <<LAMBDA_CHAR, "x", ".", " ", LAMBDA_CHAR, "y", ".", " ", "x", "y">>

\* C5: \x.{\y.{<x|y>}} parses to Lambda(x, Lambda(y, App(2, 1))) with an
\* empty table and prints as "λx. λy. x(y)": the argument of an application
\* is always parenthesized.
C5_Scenario ==
    (text = Scenario /\ pstate = "ok" /\ fstate # "idle") =>
        /\ result = <<ScenarioTerm, <<>>>>
        /\ fstate = "done"
        /\ out = <<LAMBDA_CHAR, "x", ".", " ", LAMBDA_CHAR, "y", ".", " ",
                   "x", "(", "y", ")">>

C5_Witness == text = Scenario /\ fstate = "done" /\ Len(out) = 12

Shadowing == <<"\\", "x", ".", "{", "\\", "x", ".", "{", "x", "}", "}">>

\* C6: when parse_var reads an identifier that is on the binder stack, the
\* Variable it returns carries the distance from the top of the stack to the
\* innermost entry with that name; the inner x of \x.{\x.{x}} gets depth 1.
C6_NearestBinder ==
    /\ [][(/\ Running("parse_var", "start")
           /\ IsVar(peek(tokens, cur))
           /\ \E i \in 1 .. Len(env) : env[i] = peek(tokens, cur)[2])
          => LET n == peek(tokens, cur)[2]
                 k == ret'[2]
             IN  /\ ret'[1] = "Variable"
                 /\ k \in 1 .. Len(env)
                 /\ env[Len(env) - k + 1] = n
                 /\ \A j \in 1 .. k - 1 : env[Len(env) - j + 1] # n]_vars
    /\ []((text = Shadowing /\ pstate = "ok")
          => ParsedTerm = Lambda(X, Lambda(X, Variable(1))))

C6_Witness ==
    /\ Running("parse_lambda", "body")
    /\ ret = Variable(1)
    /\ env = <<X, X>>

\* no index is 0, a positive index is at most the number of enclosing
\* Lambdas, a negative index names a slot of the table of n entries
RECURSIVE WellFormed(_, _, _)
WellFormed(term, depth, n) ==
    IF term[1] = "Variable"
    THEN \/ term[2] >= 1 /\ term[2] <= depth
         \/ term[2] <= -1 /\ -(term[2] + 1) < n
    ELSE IF term[1] = "Lambda" THEN WellFormed(term[3], depth + 1, n)
    ELSE WellFormed(term[2], depth, n) /\ WellFormed(term[3], depth, n)

\* C7: in every (Term, table) a successful parse returns, no Variable has
\* index 0, every positive index is at most the number of enclosing Lambdas
\* and every negative index -(i+1) has i below the length of the table.
C7_IndexWellFormed ==
    pstate = "ok" => WellFormed(ParsedTerm, 0, Len(ParsedFree))

C7_Witness ==
    /\ pstate = "ok"
    /\ ParsedTerm = Lambda(X, Application(Variable(1), Variable(-1)))
    /\ ParsedFree = <<Y>>

\* the identifiers written at the variable occurrences of the first c
\* tokens: every Var token that does not follow a '\'
RECURSIVE SrcOccurrences(_, _)
SrcOccurrences(toks, c) ==
    IF c = 0 THEN <<>>
    ELSE SrcOccurrences(toks, c - 1)
         \o (IF IsVar(toks[c]) /\ (c = 1 \/ toks[c - 1] # TokLambda)
             THEN <<toks[c][2]>> ELSE <<>>)

\* the indices of the Variables of a Term, left to right
RECURSIVE Indices(_)
Indices(term) ==
    IF term[1] = "Variable" THEN <<term[2]>>
    ELSE IF term[1] = "Lambda" THEN Indices(term[3])
    ELSE Indices(term[2]) \o Indices(term[3])

IsNameChar(c) == ident_body(c) \/ c = "$"

RECURSIVE NameEnd(_, _)
NameEnd(s, i) == IF i < Len(s) /\ IsNameChar(s[i + 1]) THEN NameEnd(s, i + 1) ELSE i

\* the names an output shows at its variable occurrences, left to right:
\* every run of name characters that does not follow a λ
RECURSIVE OutOccurrences(_, _)
OutOccurrences(s, i) ==
    IF i > Len(s) THEN <<>>
    ELSE IF ~IsNameChar(s[i]) THEN OutOccurrences(s, i + 1)
    ELSE LET e == NameEnd(s, i)
         IN  (IF i > 1 /\ s[i - 1] = LAMBDA_CHAR THEN <<>> ELSE <<SubSeq(s, i, e)>>)
             \o OutOccurrences(s, e + 1)

\* C8: on what a successful parse returned, format completes with no index
\* out of range, and shows at every variable occurrence the identifier
\* written there in the source, bare when bound and after a '$' when free.
C8_PrinterTotalAndNames ==
    (pstate = "ok" /\ fstate # "idle") =>
        /\ fstate = "done"
        /\ LET src == SrcOccurrences(tokens, cur)
               idx == Indices(ParsedTerm)
               shown == OutOccurrences(out, 1)
           IN  /\ Len(src) = Len(idx)
               /\ shown = [i \in 1 .. Len(src) |->
                             IF idx[i] > 0 THEN src[i] ELSE <<"$">> \o src[i]]

C8_Witness ==
    /\ fstate = "done"
    /\ ParsedTerm = Lambda(X, Application(Variable(1), Variable(-1)))
    /\ OutOccurrences(out, 1) = <<X, <<"$", "y">>>>

\* C9: after any parse call, returned or failed, the parser's binder stack
\* is empty again.
C9_BinderStackBalanced ==
    pstate \in {"ok", "panic"} => env = <<>>

\* what a running parse has left: the unread tokens, counted twice, and the
\* dispatch of parse_term when that is the innermost call
Measure ==
    2 * (Len(tokens) - cur)
    + (IF stack # <<>> /\ Top.fn = "parse_term" THEN 1 ELSE 0)

\* C10: the token cursor never moves backwards, every step of a production
\* that recurses or returns has consumed a token, and every parse stops,
\* with a Term or with a syntax error: a running parse always has a next
\* step, and each step that leaves it running lowers a measure that is
\* never negative.
C10_ProgressAndTermination ==
    /\ [][pstate = "run" => cur' >= cur]_vars
    /\ [][(pstate = "run" /\ Top.fn # "parse_term" /\ pstate' # "panic")
          => cur' > cur]_vars
    /\ [][(pstate = "run" /\ pstate' = "run") => Measure' < Measure]_vars
    /\ [](pstate = "run" => (Measure >= 0 /\ ENABLED Next))

C10_Witness ==
    /\ pstate = "ok"
    /\ cur = Len(tokens)
    /\ cur = 15

====
